---- MODULE Spec2Model ----
(***************************************************************************)
(* Model of uv-create.py: the template store (UVCreateTemplate's files     *)
(* under template_dir), the renderer (str.format on a template body) and   *)
(* create_project with its rollback.                                       *)
(*                                                                         *)
(* A text is a sequence of tokens.  A token is one character that the code *)
(* treats specially ("{", "}", carriage return "\r", line feed "\n") or a  *)
(* chunk of ordinary characters ("project_name", "txt", ...).  A path is   *)
(* the sequence of its components below the working directory.             *)
(***************************************************************************)
EXTENDS Naturals, Sequences, FiniteSets, TLC

VARIABLES
    linesep,      \* os.linesep of the platform the tool runs on
    pc,           \* main(): "idle" before the first invocation, "ready" once the
                  \* object is constructed, "returned" after the command
    storeDir,     \* template_dir exists
    store,        \* template_dir: template name -> the bytes of <name>.toml
    fs,           \* directories and files below the working directory
    last,         \* the last operation: its arguments, its result, what it printed
    written,      \* history: name -> the content of the last write, until a reset
    userWrote     \* history: the names create_custom_template was ever called on

vars == <<linesep, pc, storeDir, store, fs, last, written, userWrote>>

(***************************************************************************)
(* Bounds of the model.                                                    *)
(***************************************************************************)
MaxTemplateLen == 4

(***************************************************************************)
(* Text-mode file I/O: open(path, "w") / open(path, "r").                  *)
(***************************************************************************)
CR == "\r"
LF == "\n"

RECURSIVE WriteText(_, _)
\* f.write(text) on a file opened in text mode: each "\n" becomes os.linesep.
WriteText(text, sep) ==
    IF text = <<>> THEN <<>>
    ELSE (IF Head(text) = LF THEN sep ELSE <<Head(text)>>)
         \o WriteText(Tail(text), sep)

\* ReadText with the file opened in binary mode: no newline translation.
ReadTextBinary(bytes) == bytes

RECURSIVE ReadText(_)
\* f.read() on a file opened in text mode (universal newlines): "\r\n" and a
\* lone "\r" are both read as "\n".
ReadText(bytes) ==
    IF bytes = <<>> THEN <<>>
    ELSE IF Head(bytes) = CR
         THEN IF Len(bytes) >= 2 /\ bytes[2] = LF
              THEN <<LF>> \o ReadText(SubSeq(bytes, 3, Len(bytes)))
              ELSE <<LF>> \o ReadText(Tail(bytes))
         ELSE <<Head(bytes)>> \o ReadText(Tail(bytes))

(***************************************************************************)
(* The built-in default template set.                                      *)
(***************************************************************************)
\* get_basic_template(): the manifest text; its braces are the three markers
\* and the doubled braces around the authors entry.
get_basic_template ==
    << LF, "[project] name = ", "{", "project_name", "}", LF,
       "authors = [", "{", "{", "name = ", "{", "author_name", "}",
       ", email = ", "{", "author_email", "}", "}", "}", "]", LF,
       "[tool.ruff] ...", LF >>

\* default_templates = {"basic": self.get_basic_template()}
default_templates == [n \in {"basic"} |-> get_basic_template]

(***************************************************************************)
(* The renderer: template_content.format(project_name=..., author_name=...,*)
(* author_email=...).                                                      *)
(***************************************************************************)
FieldNames == {"project_name", "author_name", "author_email"}

\* The index of the first brace of text at or after i; Len(text)+1 when none.
RECURSIVE NextBrace(_, _)
NextBrace(text, i) ==
    IF i > Len(text) THEN i
    ELSE IF text[i] \in {"{", "}"} THEN i
    ELSE NextBrace(text, i + 1)

RECURSIVE ReplaceMarkers(_, _)
\* text with each marker {project_name}, {author_name}, {author_email}
\* replaced by its value and every other token kept: rendering by str.replace.
ReplaceMarkers(text, kwargs) ==
    IF text = <<>> THEN <<>>
    ELSE IF Len(text) >= 3 /\ text[1] = "{" /\ text[2] \in FieldNames /\ text[3] = "}"
         THEN kwargs[text[2]] \o ReplaceMarkers(SubSeq(text, 4, Len(text)), kwargs)
         ELSE <<Head(text)>> \o ReplaceMarkers(Tail(text), kwargs)

\* Format as a chain of str.replace calls, which never raises.
FormatByReplace(text, kwargs) ==
    [ok |-> TRUE, out |-> ReplaceMarkers(text, kwargs), err |-> "none"]

RECURSIVE FormatFrom(_, _, _, _)
\* str.format's scan of text from index i, acc being the output so far.
\* kwargs maps the three field names to their values (texts).
FormatFrom(text, i, acc, kwargs) ==
    IF i > Len(text) THEN [ok |-> TRUE, out |-> acc, err |-> "none"]
    ELSE IF text[i] = "{" THEN
        IF i = Len(text)
        THEN [ok |-> FALSE, out |-> <<>>, err |-> "ValueError"]   \* Single '{'
        ELSE IF text[i + 1] = "{"
        THEN FormatFrom(text, i + 2, acc \o <<"{">>, kwargs)      \* escaped {{
        ELSE LET j == NextBrace(text, i + 1)
                 field == SubSeq(text, i + 1, j - 1)
             IN IF j > Len(text)
                THEN [ok |-> FALSE, out |-> <<>>, err |-> "ValueError"] \* expected '}'
                ELSE IF text[j] = "{"
                THEN [ok |-> FALSE, out |-> <<>>, err |-> "ValueError"] \* '{' in field name
                ELSE IF field = <<>>
                THEN [ok |-> FALSE, out |-> <<>>, err |-> "IndexError"] \* {} with no args
                ELSE IF Len(field) = 1 /\ field[1] \in FieldNames
                THEN FormatFrom(text, j + 1, acc \o kwargs[field[1]], kwargs)
                ELSE [ok |-> FALSE, out |-> <<>>, err |-> "KeyError"]
    ELSE IF text[i] = "}" THEN
        IF i < Len(text) /\ text[i + 1] = "}"
        THEN FormatFrom(text, i + 2, acc \o <<"}">>, kwargs)      \* escaped }}
        ELSE [ok |-> FALSE, out |-> <<>>, err |-> "ValueError"]   \* Single '}'
    ELSE FormatFrom(text, i + 1, acc \o <<text[i]>>, kwargs)

\* template_content.format(project_name=, author_name=, author_email=)
Format(text, kwargs) == FormatFrom(text, 1, <<>>, kwargs)

(***************************************************************************)
(* The file system below the working directory.                            *)
(***************************************************************************)
NoFiles == [q \in {} |-> <<>>]

EmptyFs == [dirs |-> {}, files |-> NoFiles]

\* Exists as Path.is_file(): a directory does not count.
ExistsFileOnly(f, p) == p \in DOMAIN f.files

\* Path.exists(): the working directory <<>> itself always exists.
Exists(f, p) == p = <<>> \/ p \in f.dirs \/ p \in DOMAIN f.files

IsDir(f, p) == p = <<>> \/ p \in f.dirs

Parent(p) == SubSeq(p, 1, Len(p) - 1)

\* q is p or lies below p.
IsUnder(q, p) == Len(q) >= Len(p) /\ SubSeq(q, 1, Len(p)) = p

\* project_path.mkdir(parents=True): the directory and every missing ancestor.
MkdirParents(f, p) ==
    [f EXCEPT !.dirs = @ \cup {SubSeq(p, 1, k) : k \in 1..Len(p)}]

\* rmtree that empties the directory and leaves the directory itself.
RmtreeContentsOnly(f, p) ==
    [dirs  |-> {d \in f.dirs : d = p \/ ~(Len(d) >= Len(p) /\ SubSeq(d, 1, Len(p)) = p)},
     files |-> [q \in {x \in DOMAIN f.files :
                          ~(Len(x) >= Len(p) /\ SubSeq(x, 1, Len(p)) = p)} |-> f.files[q]]]

\* rmtree of the topmost ancestor of the directory instead of the directory.
RmtreeFromTop(f, p) ==
    [dirs  |-> {d \in f.dirs : ~(Len(d) >= 1 /\ d[1] = p[1])},
     files |-> [q \in {x \in DOMAIN f.files : ~(Len(x) >= 1 /\ x[1] = p[1])} |->
                  f.files[q]]]

\* shutil.rmtree(project_path): the directory and everything below it, and
\* nothing above it.
rmtree(f, p) ==
    [dirs  |-> {d \in f.dirs : ~IsUnder(d, p)},
     files |-> [q \in {x \in DOMAIN f.files : ~IsUnder(x, p)} |-> f.files[q]]]

\* open(path, "w") succeeds only in an existing directory.
CanOpenForWrite(f, path) == IsDir(f, Parent(path)) /\ path \notin f.dirs

\* with open(path, "w") as f: f.write(text)
WriteFile(f, path, text, sep) ==
    [f EXCEPT !.files = [q \in DOMAIN @ \cup {path} |->
                            IF q = path THEN WriteText(text, sep) ELSE @[q]]]

(***************************************************************************)
(* The template store.                                                     *)
(***************************************************************************)
\* ensure_template_dir without the exists() test: every default is rewritten.
EnsureOverwrites(st, sep) ==
    [n \in DOMAIN st \cup DOMAIN default_templates |->
        IF n \in DOMAIN default_templates THEN WriteText(default_templates[n], sep)
        ELSE st[n]]

\* ensure_template_dir(): a default template is written only when its file
\* does not exist.
ensure_template_dir(st, sep) ==
    [n \in DOMAIN st \cup DOMAIN default_templates |->
        IF n \in DOMAIN st THEN st[n] ELSE WriteText(default_templates[n], sep)]

\* list_templates(): the stems of the *.toml files.
list_templates(st) == DOMAIN st

\* with open(template_file, "r") as f: content = f.read()
ReadTemplate(st, name) == ReadText(st[name])

\* create_custom_template(): the file is created or overwritten.
create_custom_template(st, name, content, sep) ==
    [n \in DOMAIN st \cup {name} |->
        IF n = name THEN WriteText(content, sep) ELSE st[n]]

\* The names reset_default_template(template_name) rewrites: all defaults for
\* "all", the name itself when it is a default, none otherwise.
ResetTargets(name) ==
    IF name = "all" THEN DOMAIN default_templates
    ELSE IF name \in DOMAIN default_templates THEN {name}
    ELSE {}

\* reset_default_template that, like ensure, writes only the missing files.
ResetOnlyMissing(st, name, sep) ==
    [n \in DOMAIN st \cup ResetTargets(name) |->
        IF n \in DOMAIN st THEN st[n] ELSE WriteText(default_templates[n], sep)]

\* reset_default_template that empties the store before it writes the defaults.
ResetWipesStore(st, name, sep) ==
    IF ResetTargets(name) = {} THEN st
    ELSE [n \in ResetTargets(name) |-> WriteText(default_templates[n], sep)]

\* reset_default_template(): each target is overwritten with its default body.
reset_default_template(st, name, sep) ==
    [n \in DOMAIN st \cup ResetTargets(name) |->
        IF n \in ResetTargets(name) THEN WriteText(default_templates[n], sep)
        ELSE st[n]]

(***************************************************************************)
(* create_project and what it calls.                                       *)
(***************************************************************************)
\* str.lower() on the words the model's author names are made of.
Lower(w) ==
    CASE w = "Ann"  -> "ann"
      [] w = "Lee"  -> "lee"
      [] w = "Your" -> "your"
      [] w = "Name" -> "name"
      [] OTHER      -> w

\* os.getenv("USER", "Your Name"); user = <<>> stands for an unset variable.
GetenvUser(user) == IF user = <<>> THEN <<"Your", " ", "Name">> ELSE user

\* f"{author_name.lower().replace(' ', '.')}@example.com"
DefaultEmail(author) ==
    [i \in 1..Len(author) |-> IF author[i] = " " THEN "." ELSE Lower(author[i])]
    \o <<"@example.com">>

\* What a successful "uv init <path>" leaves in the directory: a manifest and
\* a readme, and with the packaged layout a package directory named after the
\* directory (not after project_name, which uv is never told).
UvManifest == <<"[project] # written by uv init", LF>>

UvInit(f, path, layout) ==
    LET withFiles ==
            [f EXCEPT !.files =
                [q \in DOMAIN @ \cup {path \o <<"pyproject.toml">>, path \o <<"README.md">>} |->
                    IF q = path \o <<"pyproject.toml">> THEN UvManifest
                    ELSE IF q = path \o <<"README.md">> THEN <<>>
                    ELSE @[q]]]
    IN IF layout = "package"
       THEN [withFiles EXCEPT
                !.dirs = @ \cup {path \o <<"src">>, path \o <<"src", path[Len(path)]>>}]
       ELSE withFiles

\* main_content / cli_content / pre_commit_content of create_additional_files,
\* and the bytes of the .pre-commit-config.yaml beside the tool.
main_content == <<"from fastapi import FastAPI", LF, "app = FastAPI()", LF>>
cli_content == <<"import click", LF, "def main(name): ...", LF>>
pre_commit_content == <<LF, "repos:", LF, "  - repo: local", LF>>
AdjacentPreCommit == <<"repos: # beside the tool", LF>>

\* The starter file of a template name: <<>> when the name has none.
StarterFile(template) ==
    IF template = "web" THEN <<"main.py">>
    ELSE IF template = "cli" THEN <<"cli.py">>
    ELSE <<>>

StarterContent(template) == IF template = "web" THEN main_content ELSE cli_content

\* create_additional_files(project_path, template, project_name).  env.io names
\* the write the operating system refuses, env.adjacent whether the tool has a
\* .pre-commit-config.yaml beside it.  The result is the file system reached
\* and the exception raised ("none" when the method returns).
create_additional_files(f, path, template, project_name, env, sep) ==
    LET starter == path \o <<"src", project_name>> \o StarterFile(template)
        preCommit == path \o <<".pre-commit-config.yaml">>
        afterStarter ==
            IF StarterFile(template) = <<>> THEN [fs |-> f, exc |-> "none"]
            ELSE IF ~CanOpenForWrite(f, starter)
            THEN [fs |-> f, exc |-> "FileNotFoundError(starter)"]
            ELSE IF env.io = "starter" THEN [fs |-> f, exc |-> "OSError"]
            ELSE [fs |-> WriteFile(f, starter, StarterContent(template), sep),
                  exc |-> "none"]
    IN IF afterStarter.exc # "none" THEN afterStarter
       ELSE IF env.io = "precommit" THEN [fs |-> afterStarter.fs, exc |-> "OSError"]
       ELSE IF env.adjacent
       THEN [fs |-> WriteFile(afterStarter.fs, preCommit, AdjacentPreCommit, <<LF>>),
             exc |-> "none"]
       ELSE [fs |-> WriteFile(afterStarter.fs, preCommit, pre_commit_content, sep),
             exc |-> "none"]

\* Rollback with the rmtree call forgotten.
RollbackForgotten(f, path) == f

\* The two except clauses of create_project: the directory is removed when it
\* exists, and the call returns False.
Rollback(f, path) == IF Exists(f, path) THEN rmtree(f, path) ELSE f

\* project_path of create_project: target_dir when given, else cwd / project_name.
project_path(project_name, target_dir) ==
    IF target_dir # <<>> THEN target_dir ELSE <<project_name>>

\* author_name of create_project after "Set default values".
AuthorName(author_name, user) ==
    IF author_name = <<>> THEN GetenvUser(user) ELSE author_name

\* author_email of create_project after "Set default values".
AuthorEmail(author_email, author) ==
    IF author_email = <<>> THEN DefaultEmail(author) ELSE author_email

\* The keyword arguments of template_content.format(...).
Kwargs(project_name, author, email) ==
    [k \in FieldNames |->
        IF k = "project_name" THEN <<project_name>>
        ELSE IF k = "author_name" THEN author ELSE email]

\* create_project(project_name, template, target_dir, author_name, author_email)
\* on store st and file system f.  env is what the call meets outside the
\* program: env.user ($USER), env.uv (how "uv init" ends: "nonzero",
\* "unlaunchable", or the layout it creates, "app" or "package"), env.io and
\* env.adjacent (see create_additional_files).  The result: the file system on
\* return, the outcome, the exception behind it and the names printed as
\* available templates.
create_project(st, f, sep, project_name, template, target_dir, author_name, author_email, env) ==
    LET author == AuthorName(author_name, env.user)
        email == AuthorEmail(author_email, author)
        path == project_path(project_name, target_dir)
        made == MkdirParents(f, path)
        inited == UvInit(made, path, env.uv)
        rendered == Format(ReadTemplate(st, template),
                           Kwargs(project_name, author, email))
        manifest == WriteFile(inited, path \o <<"pyproject.toml">>, rendered.out, sep)
        extra == create_additional_files(manifest, path, template, project_name, env, sep)
        Fail(g, kind, exc, names) ==
            [fs |-> g, result |-> kind, cause |-> exc, listed |-> names]
    IN IF Exists(f, path) THEN Fail(f, "AlreadyExists", "none", {})
       ELSE IF env.uv = "nonzero"
       THEN Fail(Rollback(made, path), "BootstrapFailed", "CalledProcessError", {})
       ELSE IF env.uv = "unlaunchable"
       THEN Fail(Rollback(made, path), "Unexpected", "FileNotFoundError(uv)", {})
       ELSE IF template \notin DOMAIN st
       THEN Fail(rmtree(inited, path), "TemplateNotFound", "none", list_templates(st))
       ELSE IF ~rendered.ok
       THEN Fail(Rollback(inited, path), "Unexpected", rendered.err, {})
       ELSE IF env.io = "manifest"
       THEN Fail(Rollback(inited, path), "Unexpected", "OSError", {})
       ELSE IF extra.exc # "none"
       THEN Fail(Rollback(extra.fs, path), "Unexpected", extra.exc, {})
       ELSE [fs |-> extra.fs, result |-> "Success", cause |-> "none", listed |-> {}]

(***************************************************************************)
(* The inputs of the operations.                                           *)
(***************************************************************************)
TemplateNames == {"basic", "web", "cli"}

\* Template bodies a user registers: one with a marker and a CR LF line end,
\* one with a placeholder that is none of the three markers and an LF line end.
UserContents ==
    { <<"name = ", "{", "project_name", "}", CR, LF>>,
      <<"{", "version", "}", LF>> }

ProjectNames == {"demo"}

\* target_dir: <<>> stands for None.
TargetDirs == {<<>>, <<"out", "site">>}

\* author_name, author_email and $USER: <<>> stands for None / unset.
Authors ==
    { [name |-> <<>>, email |-> <<>>, user |-> <<>>],
      [name |-> <<"Ann", " ", "Lee">>, email |-> <<>>, user |-> <<"root">>] }

\* What a create_project call meets outside the program.
Outsides ==
    [uv : {"nonzero", "unlaunchable"}, io : {"none"}, adjacent : {FALSE}]
    \cup [uv : {"app"}, io : {"none"}, adjacent : BOOLEAN]
    \cup [uv : {"package"}, io : {"none"}, adjacent : {FALSE}]
    \cup [uv : {"package"}, io : {"manifest", "starter", "precommit"}, adjacent : {FALSE}]

NoOp == [op |-> "none", name |-> "", project |-> "", target |-> <<>>,
         result |-> "none", cause |-> "none", listed |-> {}, shown |-> <<>>]

(***************************************************************************)
(* The state machine: one action per operation of UVCreateTemplate.        *)
(***************************************************************************)
Init ==
    /\ linesep \in {<<LF>>, <<CR, LF>>}
    /\ pc = "idle"
    /\ storeDir = FALSE
    /\ store = [n \in {} |-> <<>>]
    /\ fs = EmptyFs
    /\ last = NoOp
    /\ written = [n \in {} |-> <<>>]
    /\ userWrote = {}

\* UVCreateTemplate.__init__: every invocation of the tool constructs the
\* object, which runs ensure_template_dir(), and then runs one command.
Construct ==
    /\ pc \in {"idle", "returned"}
    /\ pc' = "ready"
    /\ storeDir' = TRUE
    /\ store' = ensure_template_dir(store, linesep)
    /\ last' = [NoOp EXCEPT !.op = "ensure", !.result = "ok"]
    /\ UNCHANGED <<linesep, fs, written, userWrote>>

\* The "list" command: list_templates().
List ==
    /\ pc = "ready"
    /\ pc' = "returned"
    /\ last' = [NoOp EXCEPT !.op = "list", !.result = "ok",
                            !.listed = list_templates(store)]
    /\ UNCHANGED <<linesep, storeDir, store, fs, written, userWrote>>

\* show_template(template_name)
Show(name) ==
    /\ pc = "ready"
    /\ pc' = "returned"
    /\ last' = IF name \notin DOMAIN store
               THEN [NoOp EXCEPT !.op = "show", !.name = name, !.result = "NotFound"]
               ELSE [NoOp EXCEPT !.op = "show", !.name = name, !.result = "ok",
                                 !.shown = ReadTemplate(store, name)]
    /\ UNCHANGED <<linesep, storeDir, store, fs, written, userWrote>>

\* create_custom_template(template_name, template_content)
Template(name, content) ==
    /\ pc = "ready"
    /\ pc' = "returned"
    /\ store' = create_custom_template(store, name, content, linesep)
    /\ written' = [n \in DOMAIN written \cup {name} |->
                      IF n = name THEN content ELSE written[n]]
    /\ userWrote' = userWrote \cup {name}
    /\ last' = [NoOp EXCEPT !.op = "write", !.name = name, !.result = "ok"]
    /\ UNCHANGED <<linesep, storeDir, fs>>

\* reset_default_template(template_name)
Restore(name) ==
    /\ pc = "ready"
    /\ pc' = "returned"
    /\ store' = reset_default_template(store, name, linesep)
    /\ written' = [n \in DOMAIN written \ ResetTargets(name) |-> written[n]]
    /\ last' = [NoOp EXCEPT !.op = "reset", !.name = name,
                   !.result = IF ResetTargets(name) = {} THEN "UnknownTemplate"
                              ELSE "ok"]
    /\ UNCHANGED <<linesep, storeDir, fs, userWrote>>

\* create_project(project_name, template, target_dir, author_name, author_email)
Create(project_name, template, target_dir, who, outside) ==
    /\ pc = "ready"
    /\ pc' = "returned"
    /\ LET env == [user |-> who.user, uv |-> outside.uv, io |-> outside.io,
                   adjacent |-> outside.adjacent]
           r == create_project(store, fs, linesep, project_name, template,
                              target_dir, who.name, who.email, env)
       IN /\ fs' = r.fs
          /\ last' = [NoOp EXCEPT !.op = "create", !.name = template,
                         !.project = project_name,
                         !.target = project_path(project_name, target_dir),
                         !.result = r.result, !.cause = r.cause,
                         !.listed = r.listed]
    /\ UNCHANGED <<linesep, storeDir, store, written, userWrote>>

Next ==
    \/ Construct
    \/ List
    \/ \E name \in TemplateNames : Show(name)
    \/ \E name \in TemplateNames, content \in UserContents : Template(name, content)
    \/ \E name \in TemplateNames \cup {"all"} : Restore(name)
    \/ \E project_name \in ProjectNames, template \in TemplateNames,
          target_dir \in TargetDirs, who \in Authors, outside \in Outsides :
            Create(project_name, template, target_dir, who, outside)

Spec == Init /\ [][Next]_vars

(***************************************************************************)
(* The renderer on every short template body: the store holds one body,    *)
(* registered as "basic", and projects are created from it.                *)
(***************************************************************************)
RenderAlphabet ==
    {"{", "}", "project_name", "author_email", "version", "txt"}

RenderTexts ==
    UNION {[1..n -> RenderAlphabet] : n \in 0..MaxTemplateLen}

RenderAuthor ==
    [name |-> <<"Ann", " ", "Lee">>, email |-> <<"ann@corp.org">>, user |-> <<"root">>]

RenderKwargs == Kwargs("demo", RenderAuthor.name, RenderAuthor.email)

InitRender ==
    /\ linesep \in {<<LF>>, <<CR, LF>>}
    /\ pc = "ready"
    /\ storeDir = TRUE
    /\ \E text \in RenderTexts :
          /\ store = [n \in {"basic"} |-> WriteText(text, linesep)]
          /\ written = [n \in {"basic"} |-> text]
    /\ fs = EmptyFs
    /\ last = [NoOp EXCEPT !.op = "ensure", !.result = "ok"]
    /\ userWrote = {"basic"}

NextRender ==
    \/ Construct
    \/ \E outside \in Outsides :
          Create("demo", "basic", <<>>, RenderAuthor, outside)

SpecRender == InitRender /\ [][NextRender]_vars

(***************************************************************************)
(* Properties.                                                             *)
(***************************************************************************)
\* The step taken is the command of an invocation / the constructor.
CommandStep(op) == pc = "ready" /\ pc' = "returned" /\ last'.op = op
EnsureStep == pc \in {"idle", "returned"} /\ pc' = "ready"

ManifestOf(target) == target \o <<"pyproject.toml">>
PreCommitOf(target) == target \o <<".pre-commit-config.yaml">>

\* Nothing of the file system g is the path p or lies below it.
Gone(g, p) ==
    \A q \in g.dirs \cup DOMAIN g.files :
        ~(Len(q) >= Len(p) /\ SubSeq(q, 1, Len(p)) = p)

\* The exceptions str.format raises.
RenderErrors == {"KeyError", "ValueError", "IndexError"}

\* The call got past the existence check and the bootstrap command succeeded.
BootstrapSucceeded(l) ==
    /\ l.result \notin {"AlreadyExists", "BootstrapFailed"}
    /\ l.cause # "FileNotFoundError(uv)"

----
\* C1: a create_project call whose target already exists returns failure
\* (AlreadyExists) and changes nothing: the file system, the target's contents
\* included, and the template store are as before the call.
C1_ExistingTargetUntouched ==
    [][(CommandStep("create")
         /\ (last'.target \in fs.dirs \/ last'.target \in DOMAIN fs.files))
        => /\ last'.result = "AlreadyExists"
           /\ fs' = fs
           /\ store' = store
           /\ storeDir' = storeDir]_vars

\* C1 witness: a second create on the target of a finished project has failed,
\* and the project is still there.
C1_Witness ==
    /\ last.op = "create"
    /\ last.result = "AlreadyExists"
    /\ last.target \in fs.dirs
    /\ ManifestOf(last.target) \in DOMAIN fs.files
    /\ PreCommitOf(last.target) \in DOMAIN fs.files

----
\* C2: when a create_project call that got past the existence check returns,
\* the target either exists with the manifest rendered from the template and a
\* pre-commit file (success), or does not exist at all (every failure).
C2_AllOrNothing ==
    (last.op = "create" /\ last.result # "AlreadyExists")
    => IF last.result = "Success"
       THEN /\ last.target \in fs.dirs
            /\ ManifestOf(last.target) \in DOMAIN fs.files
            /\ \E who \in Authors :
                  LET author == AuthorName(who.name, who.user)
                      r == Format(ReadTemplate(store, last.name),
                                  Kwargs(last.project, author,
                                         AuthorEmail(who.email, author)))
                  IN r.ok /\ fs.files[ManifestOf(last.target)] = WriteText(r.out, linesep)
            /\ PreCommitOf(last.target) \in DOMAIN fs.files
       ELSE /\ last.result \in {"BootstrapFailed", "TemplateNotFound", "Unexpected"}
            /\ Gone(fs, last.target)

\* C2 witness: the bootstrap command could not be launched for a target whose
\* parent had to be created, and the target is gone on return.
C2_Witness ==
    /\ last.op = "create"
    /\ last.result = "Unexpected"
    /\ last.cause = "FileNotFoundError(uv)"
    /\ last.target = <<"out", "site">>
    /\ Gone(fs, last.target)

----
\* C3: create_project with a template name that has no file in the store, a
\* target that does not exist and a bootstrap command that succeeds fails with
\* TemplateNotFound, reports the names in the store, leaves no target
\* directory and leaves the store unchanged.
C3_TemplateNotFound ==
    [][(CommandStep("create")
         /\ last'.name \notin DOMAIN store
         /\ last'.target \notin fs.dirs /\ last'.target \notin DOMAIN fs.files
         /\ BootstrapSucceeded(last'))
        => /\ last'.result = "TemplateNotFound"
           /\ last'.cause = "none"
           /\ last'.listed = DOMAIN store
           /\ Gone(fs', last'.target)
           /\ store' = store]_vars

\* C3 witness: a create with a missing template has failed, with other
\* templates in the store to report.
C3_Witness ==
    /\ last.op = "create"
    /\ last.result = "TemplateNotFound"
    /\ last.name \notin DOMAIN store
    /\ last.listed = DOMAIN store
    /\ "basic" \in last.listed
    /\ Gone(fs, last.target)

----
\* What C4 as amended expects of a rendering: scanning the text from the
\* left, a doubled brace stands for one brace, a marker for its value, and any
\* other brace is a stray one.
RECURSIVE HasStrayBrace(_)
HasStrayBrace(text) ==
    IF text = <<>> THEN FALSE
    ELSE IF Len(text) >= 2 /\ text[1] \in {"{", "}"} /\ text[2] = text[1]
         THEN HasStrayBrace(SubSeq(text, 3, Len(text)))
    ELSE IF Len(text) >= 3 /\ text[1] = "{" /\ text[2] \in FieldNames /\ text[3] = "}"
         THEN HasStrayBrace(SubSeq(text, 4, Len(text)))
    ELSE IF text[1] \in {"{", "}"} THEN TRUE
    ELSE HasStrayBrace(Tail(text))

RECURSIVE ExpectedRender(_, _)
ExpectedRender(text, kwargs) ==
    IF text = <<>> THEN <<>>
    ELSE IF Len(text) >= 2 /\ text[1] \in {"{", "}"} /\ text[2] = text[1]
         THEN <<text[1]>> \o ExpectedRender(SubSeq(text, 3, Len(text)), kwargs)
    ELSE IF Len(text) >= 3 /\ text[1] = "{" /\ text[2] \in FieldNames /\ text[3] = "}"
         THEN kwargs[text[2]] \o ExpectedRender(SubSeq(text, 4, Len(text)), kwargs)
    ELSE <<Head(text)>> \o ExpectedRender(Tail(text), kwargs)

HasBrace(text) == \E i \in 1..Len(text) : text[i] \in {"{", "}"}

HasMarker(text) ==
    \E i \in 1..Len(text) :
        i + 2 <= Len(text) /\ text[i] = "{" /\ text[i + 1] \in FieldNames /\ text[i + 2] = "}"

\* The template body the projects of SpecRender are rendered from.
RenderBody == ReadTemplate(store, "basic")

\* The create call reached the rendering step.
RenderReached ==
    /\ last.op = "create"
    /\ last.name = "basic"
    /\ last.result \in {"Success", "Unexpected"}
    /\ last.cause # "FileNotFoundError(uv)"

----
\* C5: after ensure() the store directory exists and every default template
\* has a file; a default never written by the user reads back as its canonical
\* body; ensure() changes no existing template file, so a user's content of a
\* default name survives every later invocation until a reset.
C5_Ensure ==
    /\ [](pc # "idle"
            => /\ storeDir
               /\ \A n \in DOMAIN default_templates :
                     /\ n \in DOMAIN store
                     /\ (n \notin userWrote
                           => ReadTemplate(store, n) = default_templates[n]))
    /\ [][EnsureStep
            => /\ storeDir'
               /\ \A n \in DOMAIN default_templates : n \in DOMAIN store'
               /\ \A n \in DOMAIN store : store'[n] = store[n]]_vars

\* C5 witness: ensure() has run on a store in which the user has overwritten
\* a default template, and the user's content is still there.
C5_Witness ==
    /\ pc = "ready"
    /\ last.op = "ensure"
    /\ "basic" \in DOMAIN written
    /\ ReadTemplate(store, "basic") = ReadText(written["basic"])
    /\ ReadTemplate(store, "basic") # default_templates["basic"]

----
\* C6: reset(name) on a default name leaves that template with its canonical
\* body whatever was written before, reset("all") does so for every default;
\* reset changes no custom template; reset of any other name fails with
\* "unknown template" and changes nothing, also when a custom template of
\* that name exists.
C6_Reset ==
    [][CommandStep("reset")
        => /\ \A n \in DOMAIN default_templates :
                 (last'.name \in {n, "all"})
                 => /\ last'.result = "ok"
                    /\ n \in DOMAIN store'
                    /\ ReadTemplate(store', n) = default_templates[n]
           /\ DOMAIN store' = DOMAIN store
           /\ \A c \in DOMAIN store \ DOMAIN default_templates : store'[c] = store[c]
           /\ (last'.name \notin DOMAIN default_templates \cup {"all"}
                 => last'.result = "UnknownTemplate" /\ store' = store)]_vars

\* C6 witness: a default template the user had overwritten has been reset,
\* with a custom template in the store.
C6_Witness ==
    /\ last.op = "reset"
    /\ last.result = "ok"
    /\ "basic" \in userWrote
    /\ ReadTemplate(store, "basic") = default_templates["basic"]
    /\ "web" \in DOMAIN store

----
NoCarriageReturn(text) == \A i \in 1..Len(text) : text[i] # CR

----
\* C8: create_project with template "web" (or "cli") present in the store, a
\* target that does not exist, a bootstrap command that succeeds and nothing
\* else going wrong (the template renders, the operating system refuses no
\* write) returns success and leaves the starter file
\* <target>/src/<project_name>/main.py (cli.py).
C8_StarterFile ==
    (/\ last.op = "create"
     /\ last.name \in {"web", "cli"}
     /\ last.result \notin {"TemplateNotFound"}
     /\ BootstrapSucceeded(last)
     /\ last.cause \notin RenderErrors \cup {"OSError"})
    => /\ last.result = "Success"
       /\ (last.target \o <<"src", last.project>> \o StarterFile(last.name))
             \in DOMAIN fs.files

----
\* C9: the set of template names in the store never shrinks, the body of a
\* template changes only by a write or a reset of that name (or of "all"),
\* and list, show and create_project leave the store as it is.
C9_StoreOnlyGrows ==
    [][/\ DOMAIN store \subseteq DOMAIN store'
       /\ \A n \in DOMAIN store :
             store'[n] # store[n]
             => \/ CommandStep("write") /\ last'.name = n
                \/ CommandStep("reset") /\ last'.name \in {n, "all"}
       /\ (CommandStep("list") \/ CommandStep("show") \/ CommandStep("create")
             => store' = store)
       /\ (storeDir => storeDir')]_vars

\* C9 witness: a create_project call has failed on a store that holds a
\* default and a custom template.
C9_Witness ==
    /\ last.op = "create"
    /\ last.result = "Unexpected"
    /\ {"basic", "web"} \subseteq DOMAIN store

----
\* The ancestors of a path, the path and the working directory excluded.
Ancestors(p) == {SubSeq(p, 1, k) : k \in 1..(Len(p) - 1)}

\* C10 as stated: a create_project call that returns failure leaves the set
\* of existing directories exactly as it was before the call.
C10_Original ==
    [][(CommandStep("create") /\ last'.result # "Success")
        => fs'.dirs = fs.dirs]_vars

\* C10 as amended: a create_project call that returns failure leaves every
\* file as it was and removes the target directory, but not the missing
\* parent directories it created along with it: the directories after the
\* call are those before it plus the target's ancestors (none are added when
\* the call fails on the existence check).
C10_RollbackKeepsParents ==
    [][(CommandStep("create") /\ last'.result # "Success")
        => /\ fs'.files = fs.files
           /\ fs'.dirs = IF last'.result = "AlreadyExists" THEN fs.dirs
                         ELSE fs.dirs \cup Ancestors(last'.target)]_vars

\* C10 witness: a create_project call into a missing parent has failed; the
\* target is gone and the parent is there.
C10_Witness ==
    /\ last.op = "create"
    /\ last.result \notin {"Success", "AlreadyExists"}
    /\ last.target = <<"out", "site">>
    /\ <<"out">> \in fs.dirs
    /\ <<"out", "site">> \notin fs.dirs
    /\ DOMAIN fs.files = {}

====
